---- MODULE Spec2Model ----
(***************************************************************************)
(* Credential-management core: AuthManager (src/auth.py) over one of the   *)
(* two StorageManager implementations of src/database.py                   *)
(* (InMemoryStorageManager, DatabaseManager).                              *)
(*                                                                         *)
(* Strings are sequences of one-character strings, Python dicts are        *)
(* functions from key names to values, Python None is NoneVal, and an ISO  *)
(* timestamp is the sequence Iso(t) of an integer clock value t.  threads  *)
(* holds the calls in progress on concurrent threads, each with its        *)
(* position and its local variables; tokens holds the JWTs the HTTP layer  *)
(* (src/flask_app.py) has issued.                                          *)
(***************************************************************************)
EXTENDS Integers, Sequences, FiniteSets, TLC

VARIABLES storage, users, table, seq, now, last, threads, tokens

vars == <<storage, users, table, seq, now, last, threads, tokens>>

----------------------------------------------------------------------------
(* Bounds of the model *)

MaxTime == 2
MaxFailed == 2
LockoutThreshold == 2

----------------------------------------------------------------------------
(* Characters and strings *)

Upper == {"A","B","C","D","E","F","G","H","I","J","K","L","M",
          "N","O","P","Q","R","S","T","U","V","W","X","Y","Z"}
Lower == {"a","b","c","d","e","f","g","h","i","j","k","l","m",
          "n","o","p","q","r","s","t","u","v","w","x","y","z"}
Digit == {"0","1","2","3","4","5","6","7","8","9"}
NewLine == "\n"

\* Characters outside ASCII, named by their code points: an uppercase letter
\* (E with acute accent) and a decimal digit (ARABIC-INDIC DIGIT THREE)
EAcute == "U+00C9"
ArabicThree == "U+0663"

\* what \d matches in a str pattern: every Unicode decimal digit
DecimalDigit == Digit \cup {ArabicThree}

NoneVal == <<"None">>
Unknown == <<"U","n","k","n","o","w","n">>

Truthy(s) == s # NoneVal /\ s # <<>>

AllIn(s, cls) == \A i \in 1..Len(s) : s[i] \in cls
SomeIn(s, cls) == \E i \in 1..Len(s) : s[i] \in cls

DigitSeq == <<"0","1","2","3","4","5","6","7","8","9">>
Iso(t) == <<"T", DigitSeq[t + 1]>>
FromIso(s) == CHOOSE t \in 0..9 : Iso(t) = s

EmptyMap == [x \in {} |-> x]
Put(f, k, v) == [x \in (DOMAIN f) \cup {k} |-> IF x = k THEN v ELSE f[x]]
Remove(f, k) == [x \in (DOMAIN f) \ {k} |-> f[x]]
Get(d, k) == IF k \in DOMAIN d THEN d[k] ELSE NoneVal

----------------------------------------------------------------------------
(* Inputs *)

alice == <<"a","l","i","c","e">>
bob == <<"b","o","b">>
ab == <<"a","b">>
Usernames == {alice, bob, ab}

SecurePass1 == <<"S","e","c","u","r","e","P","a","s","s","1">>
NewPass99 == <<"N","e","w","P","a","s","s","9","9">>
wrong == <<"w","r","o","n","g">>
Passwords == {SecurePass1, NewPass99, wrong}

mailA == <<"a","@","x",".","i","o">>
mailB == <<"b","@","x",".","i","o">>
Emails == {mailA, mailB}

Salts == {<<"0","a">>, <<"1","b">>}

----------------------------------------------------------------------------
(* AuthManager: validation and hashing (src/auth.py) *)

_password_min_length == 8
_password_max_length == 128
_username_min_length == 3
_username_max_length == 50

WordChars == Upper \cup Lower \cup Digit \cup {"_"}

\* re.match(r'^[a-zA-Z0-9_]+$', s): '$' also matches before one trailing newline
MatchesUsernamePattern(s) ==
    \/ Len(s) >= 1 /\ AllIn(s, WordChars)
    \/ /\ Len(s) >= 2
       /\ s[Len(s)] = NewLine
       /\ AllIn(SubSeq(s, 1, Len(s) - 1), WordChars)

_validate_username(username) ==
    IF ~Truthy(username) THEN FALSE
    ELSE IF Len(username) < _username_min_length
            \/ Len(username) > _username_max_length THEN FALSE
    ELSE MatchesUsernamePattern(username)

\* _validate_password with the character classes checked before the length
_validate_password_classes_first(password) ==
    IF ~Truthy(password)
      THEN [valid |-> FALSE, message |-> "Password is required"]
    ELSE IF ~SomeIn(password, Upper)
      THEN [valid |-> FALSE, message |-> "Password must contain at least one uppercase letter"]
    ELSE IF ~SomeIn(password, Lower)
      THEN [valid |-> FALSE, message |-> "Password must contain at least one lowercase letter"]
    ELSE IF ~SomeIn(password, DecimalDigit)
      THEN [valid |-> FALSE, message |-> "Password must contain at least one number"]
    ELSE IF Len(password) < _password_min_length
      THEN [valid |-> FALSE, message |-> "Password must be at least 8 characters long"]
    ELSE IF Len(password) > _password_max_length
      THEN [valid |-> FALSE, message |-> "Password must be no more than 128 characters long"]
    ELSE [valid |-> TRUE, message |-> "Password is strong"]

_validate_password(password) ==
    IF ~Truthy(password)
      THEN [valid |-> FALSE, message |-> "Password is required"]
    ELSE IF Len(password) < _password_min_length
      THEN [valid |-> FALSE, message |-> "Password must be at least 8 characters long"]
    ELSE IF Len(password) > _password_max_length
      THEN [valid |-> FALSE, message |-> "Password must be no more than 128 characters long"]
    ELSE IF ~SomeIn(password, Upper)
      THEN [valid |-> FALSE, message |-> "Password must contain at least one uppercase letter"]
    ELSE IF ~SomeIn(password, Lower)
      THEN [valid |-> FALSE, message |-> "Password must contain at least one lowercase letter"]
    ELSE IF ~SomeIn(password, DecimalDigit)
      THEN [valid |-> FALSE, message |-> "Password must contain at least one number"]
    ELSE [valid |-> TRUE, message |-> "Password is strong"]

_validate_login_input(username, password) ==
    _validate_username(username) /\ _validate_password(password).valid

\* hashlib.sha256(...).hexdigest(): an injective image of the digested string
Sha256(s) == <<"#">> \o s

\* _hash_password with the salt drawn by secrets.token_hex
_hash_password(password, salt) ==
    [salt |-> salt, hashed |-> Sha256(password \o salt)]

\* _verify_password digesting the password without the stored salt
_verify_password_unsalted(password, stored_hash, stored_salt) ==
    Sha256(password) = stored_hash

_verify_password(password, stored_hash, stored_salt) ==
    Sha256(password \o stored_salt) = stored_hash

----------------------------------------------------------------------------
(* Python None where a dict is expected: get_user(...) is None, user_data=None *)

NoRecord == [None |-> TRUE]

\* no call is in progress on another thread
NoThreads == <<>>

\* no JWT has been issued
NoTokens == {}

----------------------------------------------------------------------------
(* InMemoryStorageManager (src/database.py) *)

\* InMemoryStorageManager.__init__: self._users = {}
MemInit == EmptyMap

\* create_user without the test for an existing username
MemCreateUser_overwriting(us, user_data) ==
    IF "username" \notin DOMAIN user_data
      THEN [ret |-> FALSE, users |-> us]
    ELSE [ret |-> TRUE, users |-> Put(us, user_data.username, user_data)]

MemCreateUser(us, user_data) ==
    IF "username" \notin DOMAIN user_data
      THEN [ret |-> FALSE, users |-> us]
    ELSE IF user_data.username \in DOMAIN us
      THEN [ret |-> FALSE, users |-> us]
    ELSE [ret |-> TRUE, users |-> Put(us, user_data.username, user_data)]

MemGetUser(us, username) ==
    IF username \in DOMAIN us THEN us[username] ELSE NoRecord

MemUserExists(us, username) == username \in DOMAIN us

MemUpdateUser(us, username, user_data) ==
    IF username \notin DOMAIN us
      THEN [ret |-> FALSE, users |-> us]
    ELSE [ret |-> TRUE, users |-> Put(us, username, user_data)]

MemDeleteUser(us, username) ==
    IF username \notin DOMAIN us
      THEN [ret |-> FALSE, users |-> us]
    ELSE [ret |-> TRUE, users |-> Remove(us, username)]

MemGetUserCount(us) == Cardinality(DOMAIN us)

----------------------------------------------------------------------------
(* DatabaseManager (src/database.py): the users table is a function from   *)
(* the primary key id to the row; seq is the AUTOINCREMENT high-water mark *)

EmailLocalChars == Upper \cup Lower \cup Digit \cup {".", "_", "%", "+", "-"}
EmailDomainChars == Upper \cup Lower \cup Digit \cup {".", "-"}

EmailPatternAt(e) ==
    \E i \in 2..Len(e) : \E j \in (i + 2)..(Len(e) - 2) :
        /\ e[i] = "@"
        /\ e[j] = "."
        /\ AllIn(SubSeq(e, 1, i - 1), EmailLocalChars)
        /\ AllIn(SubSeq(e, i + 1, j - 1), EmailDomainChars)
        /\ AllIn(SubSeq(e, j + 1, Len(e)), Upper \cup Lower)

_is_valid_email(email) ==
    \/ EmailPatternAt(email)
    \/ /\ Len(email) >= 1
       /\ email[Len(email)] = NewLine
       /\ EmailPatternAt(SubSeq(email, 1, Len(email) - 1))

_validate_user_input(username, password, email) ==
    IF ~Truthy(username) \/ Len(username) < 3 \/ Len(username) > 50
      THEN [success |-> FALSE, message |-> "Username must be 3-50 characters long"]
    ELSE IF ~Truthy(password) \/ Len(password) < 8
      THEN [success |-> FALSE, message |-> "Password must be at least 8 characters long"]
    ELSE IF Truthy(email) /\ ~_is_valid_email(email)
      THEN [success |-> FALSE, message |-> "Invalid email format"]
    ELSE [success |-> TRUE, message |-> "Input validation passed"]

Db_hash_password(password, salt) ==
    [salt |-> salt, hashed |-> Sha256(password \o salt)]

Db_verify_password(password, stored_hash, stored_salt) ==
    Sha256(password \o stored_salt) = stored_hash

_get_current_timestamp(t) == Iso(t)

\* _get_connection: the connection is closed on exit; statements executed on
\* it that were not followed by conn.commit() are rolled back by the close
CloseConnection(tb, pending, committed) ==
    IF committed THEN pending ELSE tb

\* _init_database on the file a new DatabaseManager is constructed on:
\* CREATE TABLE IF NOT EXISTS keeps the rows the file holds
_init_database(tb) == CloseConnection(tb, tb, TRUE)

RowIds(tb, username) == {i \in DOMAIN tb : tb[i].username = username}

DbGetUser(tb, username) ==
    IF RowIds(tb, username) = {} THEN NoRecord
    ELSE tb[CHOOSE i \in RowIds(tb, username) : TRUE]

DbUserExists(tb, username) == RowIds(tb, username) # {}

DbGetUserCount(tb) == Cardinality(DOMAIN tb)

\* UNIQUE(email): NULL never conflicts
EmailTaken(tb, email, exceptId) ==
    /\ email # NoneVal
    /\ \E i \in DOMAIN tb : i # exceptId /\ tb[i].email = email

DbCreateUser(tb, sq, user_data, salt, t) ==
    LET username == Get(user_data, "username")
        password == Get(user_data, "password")
        email == Get(user_data, "email")
        fail == [ret |-> FALSE, table |-> tb, seq |-> sq]
        h == Db_hash_password(password, salt)
        password_hash == IF "password_hash" \notin DOMAIN user_data
                           THEN h.hashed ELSE user_data.password_hash
        hasSalt == "password_hash" \notin DOMAIN user_data
                   \/ "salt" \in DOMAIN user_data
        saltv == IF "password_hash" \notin DOMAIN user_data
                   THEN h.salt ELSE Get(user_data, "salt")
        created_at == IF "created_at" \notin DOMAIN user_data
                        THEN _get_current_timestamp(t) ELSE user_data.created_at
        row == [id |-> sq + 1,
                username |-> username,
                password_hash |-> password_hash,
                salt |-> saltv,
                email |-> email,
                created_at |-> created_at,
                updated_at |-> NoneVal,
                last_login |-> NoneVal,
                is_active |-> TRUE,
                failed_login_attempts |-> 0,
                account_locked_until |-> NoneVal]
    IN  IF ~_validate_user_input(username, password, email).success THEN fail
        ELSE IF DbUserExists(tb, username) THEN fail
        ELSE IF ~hasSalt THEN fail
        ELSE IF password_hash = NoneVal \/ saltv = NoneVal THEN fail
        ELSE IF EmailTaken(tb, email, 0) THEN fail
        ELSE [ret |-> TRUE,
              table |-> CloseConnection(tb, Put(tb, sq + 1, row), TRUE),
              seq |-> sq + 1]

UpdatableKeys == {"email", "is_active", "password"}

DbUpdateUser(tb, username, user_data, salt, t) ==
    LET user == DbGetUser(tb, username)
        fail == [ret |-> FALSE, table |-> tb]
        h == Db_hash_password(user_data.password, salt)
        newRow == [k \in DOMAIN user |->
                     IF k = "email" /\ "email" \in DOMAIN user_data
                       THEN user_data.email
                     ELSE IF k = "is_active" /\ "is_active" \in DOMAIN user_data
                       THEN user_data.is_active
                     ELSE IF k = "password_hash" /\ "password" \in DOMAIN user_data
                       THEN h.hashed
                     ELSE IF k = "salt" /\ "password" \in DOMAIN user_data
                       THEN h.salt
                     ELSE IF k = "updated_at"
                       THEN _get_current_timestamp(t)
                     ELSE user[k]]
    IN  IF user = NoRecord THEN fail
        ELSE IF (DOMAIN user_data) \cap UpdatableKeys = {} THEN fail
        ELSE IF "email" \in DOMAIN user_data
                /\ EmailTaken(tb, user_data.email, user.id) THEN fail
        ELSE [ret |-> TRUE,
              table |-> CloseConnection(tb, Put(tb, user.id, newRow), FALSE)]

DbDeleteUser(tb, username) ==
    LET user == DbGetUser(tb, username)
    IN  IF user = NoRecord THEN [ret |-> FALSE, table |-> tb]
        ELSE [ret |-> TRUE,
              table |-> CloseConnection(tb, Remove(tb, user.id), FALSE)]

\* _increment_failed_login_attempts that also sets account_locked_until
\* once the counter reaches the threshold
_increment_failed_login_attempts_locking(tb, user_id) ==
    CloseConnection(tb,
        [tb EXCEPT ![user_id].failed_login_attempts = @ + 1,
                   ![user_id].account_locked_until =
                       IF tb[user_id].failed_login_attempts + 1 >= LockoutThreshold
                         THEN Iso(MaxTime + 1) ELSE @], TRUE)

\* _increment_failed_login_attempts with an UPDATE that has no WHERE id = ?
_increment_failed_login_attempts_all_rows(tb, user_id) ==
    CloseConnection(tb,
        [i \in DOMAIN tb |->
            [tb[i] EXCEPT !.failed_login_attempts = @ + 1]], TRUE)

\* _increment_failed_login_attempts without its conn.commit()
_increment_failed_login_attempts_uncommitted(tb, user_id) ==
    CloseConnection(tb,
        [tb EXCEPT ![user_id].failed_login_attempts = @ + 1], FALSE)

_increment_failed_login_attempts(tb, user_id) ==
    CloseConnection(tb,
        [tb EXCEPT ![user_id].failed_login_attempts = @ + 1], TRUE)

_reset_failed_login_attempts(tb, user_id) ==
    CloseConnection(tb,
        [tb EXCEPT ![user_id].failed_login_attempts = 0,
                   ![user_id].account_locked_until = NoneVal], TRUE)

_update_last_login(tb, user_id, t) ==
    CloseConnection(tb,
        [tb EXCEPT ![user_id].last_login = _get_current_timestamp(t)], TRUE)

\* the lock test without the comparison with datetime.now()
IsLockedAt_unexpiring(user, t) ==
    Truthy(user.account_locked_until)

IsLockedAt(user, t) ==
    /\ Truthy(user.account_locked_until)
    /\ t < FromIso(user.account_locked_until)

authenticate_user(tb, username, password, t) ==
    LET user == DbGetUser(tb, username)
    IN  IF user = NoRecord
          THEN [success |-> FALSE, message |-> "User not found",
                result_type |-> "user_not_found", data |-> NoRecord,
                table |-> tb]
        ELSE IF IsLockedAt(user, t)
          THEN [success |-> FALSE, message |-> "Account is temporarily locked",
                result_type |-> "validation_error", data |-> NoRecord,
                table |-> tb]
        ELSE IF Db_verify_password(password, user.password_hash, user.salt)
          THEN [success |-> TRUE, message |-> "Authentication successful",
                result_type |-> "success",
                data |-> [user_id |-> user.id, username |-> user.username],
                table |-> _update_last_login(
                            _reset_failed_login_attempts(tb, user.id),
                            user.id, t)]
        ELSE [success |-> FALSE, message |-> "Invalid credentials",
              result_type |-> "validation_error", data |-> NoRecord,
              table |-> _increment_failed_login_attempts(tb, user.id)]

----------------------------------------------------------------------------
(* Dispatch on the storage_manager the AuthManager was constructed with *)

InMemory == "InMemoryStorageManager"
Sqlite == "DatabaseManager"

StorageGetUser(username) ==
    IF storage = InMemory THEN MemGetUser(users, username)
    ELSE DbGetUser(table, username)

StorageUserExists(username) ==
    IF storage = InMemory THEN MemUserExists(users, username)
    ELSE DbUserExists(table, username)

StorageGetUserCount ==
    IF storage = InMemory THEN MemGetUserCount(users)
    ELSE DbGetUserCount(table)

\* Python truthiness of a dict-or-None: "if not user_data"
Falsy(d) == DOMAIN d = {} \/ d = NoRecord

----------------------------------------------------------------------------
(* Inputs of the store operations *)

badMail == <<"a","@","x">>
salt0 == <<"0","a">>

CreateInputs ==
    {[username |-> alice, password |-> SecurePass1, created_at |-> Iso(0)],
     [username |-> alice, password |-> SecurePass1, email |-> mailA,
      created_at |-> Iso(0)],
     [username |-> alice, password_hash |-> Sha256(SecurePass1 \o salt0),
      salt |-> salt0, created_at |-> Iso(0)],
     [username |-> bob, password |-> SecurePass1, email |-> mailA],
     [username |-> bob, password |-> wrong, created_at |-> Iso(0)],
     [username |-> bob, password |-> SecurePass1, email |-> badMail],
     [username |-> ab, password |-> SecurePass1, created_at |-> Iso(0)],
     [password |-> SecurePass1]}

UpdateInputs ==
    {[email |-> mailA, last_login |-> Iso(0)],
     [email |-> mailB],
     [password |-> NewPass99],
     [last_login |-> Iso(0)]}

\* the usernames the calls are made for
UpdateUsers == {alice}
DeleteUsers == {alice, bob}
AuthUsers == {alice, ab}

\* secrets.token_hex is drawn only where the password is hashed
SaltsFor(user_data) ==
    IF "password" \in DOMAIN user_data THEN Salts ELSE {salt0}

----------------------------------------------------------------------------
(* The record of the last call: what was called, with which username and   *)
(* password, and what it returned; n alternates between 0 and 1 from one   *)
(* call to the next, so that a call repeated with the same result is a     *)
(* step of its own.  The record of an AuthManager call has one more field, *)
(* calls: the storage methods the call invoked, in order                   *)

Outcome(op, username, password, ok, raised, result_type, message, payload) ==
    [op |-> op, username |-> username, password |-> password,
     ok |-> ok, raised |-> raised, result_type |-> result_type,
     message |-> message, payload |-> payload,
     n |-> 1 - last.n]

BoolOutcome(op, username, ret) ==
    Outcome(op, username, NoneVal, ret, FALSE, "", "", NoRecord)

NoCall ==
    [op |-> "init", username |-> NoneVal, password |-> NoneVal,
               ok |-> TRUE, raised |-> FALSE, result_type |-> "",
               message |-> "", payload |-> NoRecord, n |-> 0]

Init ==
    /\ storage \in {InMemory, Sqlite}
    /\ users = EmptyMap
    /\ table = EmptyMap
    /\ seq = 0
    /\ now = 1
    /\ last = NoCall
    /\ threads = NoThreads
    /\ tokens = NoTokens

----------------------------------------------------------------------------
(* Store operations called directly *)

MemCreate(user_data) ==
    /\ storage = InMemory
    /\ LET r == MemCreateUser(users, user_data)
       IN  /\ users' = r.users
           /\ last' = BoolOutcome("create_user", Get(user_data, "username"),
                                  r.ret)
    /\ UNCHANGED <<tokens, threads, storage, table, seq, now>>

MemUpdate(username, user_data) ==
    /\ storage = InMemory
    /\ LET r == MemUpdateUser(users, username, user_data)
       IN  /\ users' = r.users
           /\ last' = BoolOutcome("update_user", username, r.ret)
    /\ UNCHANGED <<tokens, threads, storage, table, seq, now>>

MemDelete(username) ==
    /\ storage = InMemory
    /\ LET r == MemDeleteUser(users, username)
       IN  /\ users' = r.users
           /\ last' = BoolOutcome("delete_user", username, r.ret)
    /\ UNCHANGED <<tokens, threads, storage, table, seq, now>>

DbCreate(user_data, salt) ==
    /\ storage = Sqlite
    /\ LET r == DbCreateUser(table, seq, user_data, salt, now)
       IN  /\ table' = r.table
           /\ seq' = r.seq
           /\ last' = BoolOutcome("create_user", Get(user_data, "username"),
                                  r.ret)
    /\ UNCHANGED <<tokens, threads, storage, users, now>>

DbUpdate(username, user_data, salt) ==
    /\ storage = Sqlite
    /\ LET r == DbUpdateUser(table, username, user_data, salt, now)
       IN  /\ table' = r.table
           /\ last' = BoolOutcome("update_user", username, r.ret)
    /\ UNCHANGED <<tokens, threads, storage, users, seq, now>>

DbDelete(username) ==
    /\ storage = Sqlite
    /\ LET r == DbDeleteUser(table, username)
       IN  /\ table' = r.table
           /\ last' = BoolOutcome("delete_user", username, r.ret)
    /\ UNCHANGED <<tokens, threads, storage, users, seq, now>>

DbAuthenticate(username, password) ==
    /\ storage = Sqlite
    /\ LET r == authenticate_user(table, username, password, now)
       IN  /\ \A i \in DOMAIN r.table :
                 r.table[i].failed_login_attempts <= MaxFailed
           /\ table' = r.table
           /\ last' = Outcome("authenticate_user", username, password,
                              r.success, FALSE, r.result_type, r.message, r.data)
    /\ UNCHANGED <<tokens, threads, storage, users, seq, now>>

----------------------------------------------------------------------------
(* AuthManager operations (src/auth.py) *)

\* _validate_registration_input with the two checks in the other order
_validate_registration_input_password_first(username, password) ==
    IF ~_validate_password(password).valid
      THEN [success |-> FALSE,
            message |-> _validate_password(password).message,
            result_type |-> "weak_password"]
    ELSE IF ~_validate_username(username)
      THEN [success |-> FALSE,
            message |-> "Username must be 3-50 characters and contain only letters, numbers, and underscores",
            result_type |-> "invalid_username"]
    ELSE [success |-> TRUE, message |-> "Input validation passed",
          result_type |-> "success"]

_validate_registration_input(username, password) ==
    IF ~_validate_username(username)
      THEN [success |-> FALSE,
            message |-> "Username must be 3-50 characters and contain only letters, numbers, and underscores",
            result_type |-> "invalid_username"]
    ELSE IF ~_validate_password(password).valid
      THEN [success |-> FALSE,
            message |-> _validate_password(password).message,
            result_type |-> "weak_password"]
    ELSE [success |-> TRUE, message |-> "Input validation passed",
          result_type |-> "success"]

\* The result register_user returns and the store it leaves, computed from
\* the store it was called on; calls lists the storage methods it called
register_user(us, tb, sq, username, password, salt, t) ==
    LET v == _validate_registration_input(username, password)
        h == _hash_password(password, salt)
        user_data == [username |-> username,
                      password_hash |-> h.hashed,
                      salt |-> h.salt,
                      created_at |-> Iso(t)]
        m == MemCreateUser(us, user_data)
        d == DbCreateUser(tb, sq, user_data, salt, t)
        same == [users |-> us, table |-> tb, seq |-> sq]
    IN  IF ~v.success
          THEN same @@ [success |-> FALSE, message |-> v.message,
                        result_type |-> v.result_type, user_data |-> NoRecord,
                        calls |-> <<>>]
        ELSE IF StorageUserExists(username)
          THEN same @@ [success |-> FALSE, message |-> "User already exists",
                        result_type |-> "user_exists", user_data |-> NoRecord,
                        calls |-> <<"user_exists">>]
        ELSE [success |-> TRUE, message |-> "User registered successfully",
              result_type |-> "success",
              user_data |-> [username |-> username],
              calls |-> <<"user_exists", "create_user">>,
              users |-> IF storage = InMemory THEN m.users ELSE us,
              table |-> IF storage = Sqlite THEN d.table ELSE tb,
              seq |-> IF storage = Sqlite THEN d.seq ELSE sq]

login_user(username, password) ==
    LET user_data == StorageGetUser(username)
    IN  IF ~_validate_login_input(username, password)
          THEN [success |-> FALSE, raised |-> FALSE,
                message |-> "Invalid input provided",
                result_type |-> "invalid_input", user_data |-> NoRecord,
                calls |-> <<>>]
        ELSE IF Falsy(user_data)
          THEN [success |-> FALSE, raised |-> FALSE,
                message |-> "User not found",
                result_type |-> "user_not_found", user_data |-> NoRecord,
                calls |-> <<"get_user">>]
        ELSE IF {"password_hash", "salt"} \ DOMAIN user_data # {}
          THEN [success |-> FALSE, raised |-> TRUE,
                message |-> "KeyError",
                result_type |-> "", user_data |-> NoRecord,
                calls |-> <<"get_user">>]
        ELSE IF _verify_password(password, user_data.password_hash, user_data.salt)
          THEN [success |-> TRUE, raised |-> FALSE,
                message |-> "Login successful",
                result_type |-> "success",
                user_data |-> [username |-> username],
                calls |-> <<"get_user">>]
        ELSE [success |-> FALSE, raised |-> FALSE,
              message |-> "Invalid credentials",
              result_type |-> "invalid_credentials", user_data |-> NoRecord,
              calls |-> <<"get_user">>]

\* get_user_data returning the stored hash along with the safe fields
get_user_data_leaky(username) ==
    LET user_data == StorageGetUser(username)
    IN  IF ~_validate_username(username)
          THEN [success |-> FALSE, raised |-> FALSE,
                message |-> "Invalid username format",
                result_type |-> "invalid_username", user_data |-> NoRecord,
                calls |-> <<>>]
        ELSE IF Falsy(user_data)
          THEN [success |-> FALSE, raised |-> FALSE,
                message |-> "User not found",
                result_type |-> "user_not_found", user_data |-> NoRecord,
                calls |-> <<"get_user">>]
        ELSE IF "username" \notin DOMAIN user_data
          THEN [success |-> FALSE, raised |-> TRUE,
                message |-> "KeyError",
                result_type |-> "", user_data |-> NoRecord,
                calls |-> <<"get_user">>]
        ELSE [success |-> TRUE, raised |-> FALSE,
              message |-> "User data retrieved successfully",
              result_type |-> "success",
              calls |-> <<"get_user">>,
              user_data |-> [username |-> user_data.username,
                             created_at |-> Get(user_data, "created_at"),
                             password_hash |-> Get(user_data, "password_hash")]]

get_user_data(username) ==
    LET user_data == StorageGetUser(username)
    IN  IF ~_validate_username(username)
          THEN [success |-> FALSE, raised |-> FALSE,
                message |-> "Invalid username format",
                result_type |-> "invalid_username", user_data |-> NoRecord,
                calls |-> <<>>]
        ELSE IF Falsy(user_data)
          THEN [success |-> FALSE, raised |-> FALSE,
                message |-> "User not found",
                result_type |-> "user_not_found", user_data |-> NoRecord,
                calls |-> <<"get_user">>]
        ELSE IF "username" \notin DOMAIN user_data
          THEN [success |-> FALSE, raised |-> TRUE,
                message |-> "KeyError",
                result_type |-> "", user_data |-> NoRecord,
                calls |-> <<"get_user">>]
        ELSE [success |-> TRUE, raised |-> FALSE,
              message |-> "User data retrieved successfully",
              result_type |-> "success",
              calls |-> <<"get_user">>,
              user_data |-> [username |-> user_data.username,
                             created_at |-> IF "created_at" \in DOMAIN user_data
                                              THEN user_data.created_at
                                              ELSE Unknown]]

RegisterUser(username, password, salt) ==
    /\ LET r == register_user(users, table, seq, username, password, salt, now)
       IN  /\ users' = r.users
           /\ table' = r.table
           /\ seq' = r.seq
           /\ last' = Outcome("register_user", username, password,
                              r.success, FALSE, r.result_type, r.message,
                              r.user_data) @@ [calls |-> r.calls]
    /\ UNCHANGED <<tokens, threads, storage, now>>

LoginUser(username, password) ==
    /\ LET r == login_user(username, password)
       IN  last' = Outcome("login_user", username, password,
                           r.success, r.raised, r.result_type, r.message,
                           r.user_data) @@ [calls |-> r.calls]
    /\ UNCHANGED <<tokens, threads, storage, users, table, seq, now>>

GetUserData(username) ==
    /\ LET r == get_user_data(username)
       IN  last' = Outcome("get_user_data", username, NoneVal,
                           r.success, r.raised, r.result_type, r.message,
                           r.user_data) @@ [calls |-> r.calls]
    /\ UNCHANGED <<tokens, threads, storage, users, table, seq, now>>

\* The application restarts: a new storage manager is constructed, the
\* DatabaseManager on the same db_path
Restart ==
    /\ users' = MemInit
    /\ table' = IF storage = Sqlite THEN _init_database(table) ELSE table
    /\ last' = BoolOutcome("__init__", NoneVal, TRUE)
    /\ UNCHANGED <<tokens, threads, storage, seq, now>>

\* datetime.now() advances between calls
Tick ==
    /\ now < MaxTime
    /\ now' = now + 1
    /\ UNCHANGED <<tokens, threads, storage, users, table, seq, last>>

Next ==
    \/ \E d \in CreateInputs : MemCreate(d)
    \/ \E u \in UpdateUsers, d \in UpdateInputs : MemUpdate(u, d)
    \/ \E u \in DeleteUsers : MemDelete(u)
    \/ \E d \in CreateInputs : \E s \in SaltsFor(d) : DbCreate(d, s)
    \/ \E u \in UpdateUsers, d \in UpdateInputs : \E s \in SaltsFor(d) :
          DbUpdate(u, d, s)
    \/ \E u \in DeleteUsers : DbDelete(u)
    \/ \E u \in AuthUsers, pw \in Passwords : DbAuthenticate(u, pw)
    \/ \E u \in AuthUsers, pw \in Passwords, s \in Salts : RegisterUser(u, pw, s)
    \/ \E u \in AuthUsers, pw \in Passwords : LoginUser(u, pw)
    \/ \E u \in AuthUsers : GetUserData(u)
    \/ Restart
    \/ Tick

Spec == Init /\ [][Next]_vars

----------------------------------------------------------------------------
(* A DatabaseManager constructed on a database file that already holds an  *)
(* account (CREATE TABLE IF NOT EXISTS keeps the rows of the file), with   *)
(* the lockout columns as the schema admits them                           *)

ExistingRow(failed, locked_until) ==
    [id |-> 1,
     username |-> alice,
     password_hash |-> Sha256(SecurePass1 \o salt0),
     salt |-> salt0,
     email |-> NoneVal,
     created_at |-> Iso(0),
     updated_at |-> NoneVal,
     last_login |-> NoneVal,
     is_active |-> TRUE,
     failed_login_attempts |-> failed,
     account_locked_until |-> locked_until]

InitExisting ==
    /\ storage \in {InMemory, Sqlite}
    /\ users = EmptyMap
    /\ \/ storage = InMemory /\ table = EmptyMap /\ seq = 0
       \/ /\ storage = Sqlite
          /\ seq = 1
          /\ \E f \in {0, LockoutThreshold} :
             \E l \in {NoneVal} \cup {Iso(t) : t \in 1..MaxTime} :
                table = [i \in {1} |-> ExistingRow(f, l)]
    /\ now = 1
    /\ last = NoCall
    /\ threads = NoThreads
    /\ tokens = NoTokens

SpecExisting == InitExisting /\ [][Next]_vars

----------------------------------------------------------------------------
(* Properties *)

Account(username) == StorageGetUser(username)

HasCredentials(rec) == {"password_hash", "salt"} \subseteq DOMAIN rec

Matches(rec, password) ==
    HasCredentials(rec) /\ _verify_password(password, rec.password_hash, rec.salt)

FailedAttempts(rec) ==
    IF "failed_login_attempts" \in DOMAIN rec
      THEN rec.failed_login_attempts ELSE 0

Locked(rec) == "account_locked_until" \in DOMAIN rec /\ IsLockedAt(rec, now)

\* the two operations that authenticate a username and a password
Authenticate(username, password) ==
    LoginUser(username, password) \/ DbAuthenticate(username, password)

\* C1: once register_user(u, p) has returned success, the store holds a
\* record for u (user_exists(u), get_user(u) is not None) and
\* login_user(u, p) returns success, whichever storage is used.
C1_RegisteredUserIsStored ==
    (last.op = "register_user" /\ last.ok) =>
        /\ StorageUserExists(last.username)
        /\ Account(last.username) # NoRecord
        /\ login_user(last.username, last.password).success

\* C2: a register of u that follows a successful register of u fails with
\* user_exists, whatever the password, and leaves the stored record of u
\* (its password_hash and salt) as it was.
C2_DuplicateRegisterFails ==
    [][\A u \in AuthUsers, pw \in Passwords, s \in Salts :
        (/\ last.op = "register_user" /\ last.ok /\ last.username = u
         /\ _validate_password(pw).valid
         /\ RegisterUser(u, pw, s))
        => /\ ~last'.ok
           /\ last'.result_type = "user_exists"
           /\ Account(u)' = Account(u)]_vars

\* C3: authenticating an existing, not locked account with a password that
\* is not the registered one fails with reason invalid_credentials and
\* increases its failed_login_attempts by exactly 1.
C3_WrongPasswordIsCounted ==
    [][\A u \in AuthUsers, pw \in Passwords :
        (/\ storage = Sqlite
         /\ StorageUserExists(u)
         /\ ~Locked(Account(u))
         /\ ~Matches(Account(u), pw)
         /\ Authenticate(u, pw))
        => /\ ~last'.ok
           /\ last'.result_type = "invalid_credentials"
           /\ FailedAttempts(Account(u)') = FailedAttempts(Account(u)) + 1]_vars

\* C4: authenticating a not locked account with the matching password
\* resets failed_login_attempts to 0, clears account_locked_until, sets
\* last_login to the current time and returns success with a payload that
\* carries the username and not the hash.
C4_SuccessResetsAndStamps ==
    [][\A u \in AuthUsers, pw \in Passwords :
        (/\ storage = Sqlite
         /\ StorageUserExists(u)
         /\ ~Locked(Account(u))
         /\ Matches(Account(u), pw)
         /\ Authenticate(u, pw))
        => /\ last'.ok
           /\ last'.payload # NoRecord
           /\ last'.payload.username = u
           /\ "password_hash" \notin DOMAIN last'.payload
           /\ FailedAttempts(Account(u)') = 0
           /\ Get(Account(u)', "account_locked_until") = NoneVal
           /\ Get(Account(u)', "last_login") = Iso(now)]_vars

\* C5: once an account has LockoutThreshold consecutive failed
\* authentications, its account_locked_until is set (so that authentication
\* is refused until the lock expires).
C5_LockedAtThreshold ==
    \A i \in DOMAIN table :
        table[i].failed_login_attempts >= LockoutThreshold
            => Truthy(table[i].account_locked_until)

Accounts ==
    IF storage = InMemory THEN {users[u] : u \in DOMAIN users}
    ELSE {table[i] : i \in DOMAIN table}

SecretKeys == {"password", "password_hash", "salt"}

SecretsOf(rec) == {rec[k] : k \in (DOMAIN rec) \cap SecretKeys}

ServiceOps == {"register_user", "login_user", "get_user_data"}

\* C7: no payload returned by register_user, login_user or get_user_data
\* has a password, password_hash or salt key, or carries as a value the
\* password of the call or the password, hash or salt of a stored account.
C7_NoSecretInPayload ==
    (last.op \in ServiceOps /\ last.payload # NoRecord) =>
        /\ (DOMAIN last.payload) \cap SecretKeys = {}
        /\ \A k \in DOMAIN last.payload :
              /\ last.payload[k] # last.password
              /\ \A rec \in Accounts : last.payload[k] \notin SecretsOf(rec)

C7_Witness ==
    /\ last.op = "get_user_data"
    /\ last.ok
    /\ last.payload # NoRecord
    /\ HasCredentials(Account(last.username))

Delete(username) == MemDelete(username) \/ DbDelete(username)

\* C8: after delete_user(u) returned true for an existing user u,
\* user_exists(u) is false, get_user(u) is None and get_user_count() is one
\* less than before the call.
C8_DeleteRemovesUser ==
    [][\A u \in DeleteUsers :
        (StorageUserExists(u) /\ Delete(u) /\ last'.ok)
        => /\ ~StorageUserExists(u)'
           /\ Account(u)' = NoRecord
           /\ StorageGetUserCount' = StorageGetUserCount - 1]_vars

\* C9: deleting a username that has no account returns false and raises
\* nothing; deleting the same existing username twice in a row returns true
\* the first time and false the second time.
C9_DeleteTwice ==
    [][\A u \in DeleteUsers :
        Delete(u) =>
           /\ ~last'.raised
           /\ ~StorageUserExists(u) => ~last'.ok
           /\ StorageUserExists(u) => last'.ok
           /\ (last.op = "delete_user" /\ last.username = u /\ last.ok)
                 => ~last'.ok]_vars

Update(username, user_data) ==
    MemUpdate(username, user_data)
        \/ \E s \in SaltsFor(user_data) : DbUpdate(username, user_data, s)

\* C10: after update_user(u, fields) returned true, get_user(u) returns the
\* new value of every field given (email, last_login), the previous value of
\* every field not given, and a set updated_at.
C10_UpdateIsVisible ==
    [][\A u \in UpdateUsers, d \in UpdateInputs :
        (/\ DOMAIN d \subseteq {"email", "last_login"}
         /\ Update(u, d)
         /\ last'.ok)
        => /\ \A k \in DOMAIN d :
                 k \in DOMAIN Account(u)' /\ Account(u)'[k] = d[k]
           /\ \A k \in (DOMAIN Account(u)) \ (DOMAIN d \cup {"updated_at"}) :
                 k \in DOMAIN Account(u)' /\ Account(u)'[k] = Account(u)[k]
           /\ Truthy(Get(Account(u)', "updated_at"))]_vars

\* C11: every change a DatabaseManager operation reported as successful
\* (create_user, update_user, delete_user returning true) is seen by a new
\* DatabaseManager opened afterwards on the same path: the user count, the
\* existence of the user, the updated email and the ability to log in with
\* the registered password; and the restart itself changes none of them.
C11_ChangesSurviveRestart ==
    [][/\ \A d \in CreateInputs : \A s \in SaltsFor(d) :
            (DbCreate(d, s) /\ last'.ok) =>
                LET reopened == _init_database(table')
                IN  /\ DbUserExists(reopened, d.username)
                    /\ DbGetUserCount(reopened) = DbGetUserCount(table) + 1
                    /\ authenticate_user(reopened, d.username, d.password,
                                         now).success
       /\ \A u \in UpdateUsers, d \in UpdateInputs : \A s \in SaltsFor(d) :
            (DbUpdate(u, d, s) /\ last'.ok /\ "email" \in DOMAIN d) =>
                DbGetUser(_init_database(table'), u).email = d.email
       /\ \A u \in DeleteUsers :
            (DbDelete(u) /\ last'.ok) =>
                LET reopened == _init_database(table')
                IN  /\ ~DbUserExists(reopened, u)
                    /\ DbGetUserCount(reopened) = DbGetUserCount(table) - 1
       /\ (storage = Sqlite /\ Restart) => table' = table]_vars

----------------------------------------------------------------------------
(* The two StorageManager implementations side by side: both start empty   *)
(* and every store operation is applied to both with the same arguments;   *)
(* last.payload holds what each of them returned                           *)

Both == "InMemoryStorageManager, DatabaseManager"

\* get_all_users: the returned list is modelled by the set of its elements
MemGetAllUsers(us) ==
    IF \E u \in DOMAIN us : "username" \notin DOMAIN us[u]
      THEN [raised |-> TRUE, users |-> {}]
    ELSE [raised |-> FALSE,
          users |-> {[username |-> us[u].username,
                      created_at |-> IF "created_at" \in DOMAIN us[u]
                                       THEN us[u].created_at ELSE Unknown] :
                     u \in DOMAIN us}]

AllUsersColumns ==
    {"username", "email", "created_at", "updated_at", "last_login",
     "is_active", "failed_login_attempts", "account_locked_until"}

DbGetAllUsers(tb) ==
    [raised |-> FALSE,
     users |-> {[k \in AllUsersColumns |-> tb[i][k]] : i \in DOMAIN tb}]

Returned(op, username, mem, db) ==
    Outcome(op, username, NoneVal, mem = db, FALSE, "", "",
            [mem |-> mem, db |-> db])

InitBoth ==
    /\ storage = Both
    /\ users = MemInit
    /\ table = _init_database(EmptyMap)
    /\ seq = 0
    /\ now = 1
    /\ last = NoCall
    /\ threads = NoThreads
    /\ tokens = NoTokens

BothCreate(user_data, salt) ==
    /\ storage = Both
    /\ LET m == MemCreateUser(users, user_data)
           d == DbCreateUser(table, seq, user_data, salt, now)
       IN  /\ users' = m.users
           /\ table' = d.table
           /\ seq' = d.seq
           /\ last' = Returned("create_user", Get(user_data, "username"),
                               m.ret, d.ret)
    /\ UNCHANGED <<tokens, threads, storage, now>>

BothUpdate(username, user_data, salt) ==
    /\ storage = Both
    /\ LET m == MemUpdateUser(users, username, user_data)
           d == DbUpdateUser(table, username, user_data, salt, now)
       IN  /\ users' = m.users
           /\ table' = d.table
           /\ last' = Returned("update_user", username, m.ret, d.ret)
    /\ UNCHANGED <<tokens, threads, storage, seq, now>>

BothDelete(username) ==
    /\ storage = Both
    /\ LET m == MemDeleteUser(users, username)
           d == DbDeleteUser(table, username)
       IN  /\ users' = m.users
           /\ table' = d.table
           /\ last' = Returned("delete_user", username, m.ret, d.ret)
    /\ UNCHANGED <<tokens, threads, storage, seq, now>>

BothGetUser(username) ==
    /\ storage = Both
    /\ last' = Returned("get_user", username,
                        MemGetUser(users, username), DbGetUser(table, username))
    /\ UNCHANGED <<tokens, threads, storage, users, table, seq, now>>

BothUserExists(username) ==
    /\ storage = Both
    /\ last' = Returned("user_exists", username,
                        MemUserExists(users, username),
                        DbUserExists(table, username))
    /\ UNCHANGED <<tokens, threads, storage, users, table, seq, now>>

BothGetAllUsers ==
    /\ storage = Both
    /\ last' = Returned("get_all_users", NoneVal,
                        MemGetAllUsers(users), DbGetAllUsers(table))
    /\ UNCHANGED <<tokens, threads, storage, users, table, seq, now>>

BothGetUserCount ==
    /\ storage = Both
    /\ last' = Returned("get_user_count", NoneVal,
                        MemGetUserCount(users), DbGetUserCount(table))
    /\ UNCHANGED <<tokens, threads, storage, users, table, seq, now>>

NextBoth ==
    \/ \E d \in CreateInputs : \E s \in SaltsFor(d) : BothCreate(d, s)
    \/ \E u \in UpdateUsers, d \in UpdateInputs : \E s \in SaltsFor(d) :
          BothUpdate(u, d, s)
    \/ \E u \in DeleteUsers : BothDelete(u)
    \/ \E u \in DeleteUsers : BothGetUser(u)
    \/ \E u \in DeleteUsers : BothUserExists(u)
    \/ BothGetAllUsers
    \/ BothGetUserCount

SpecBoth == InitBoth /\ [][NextBoth]_vars

StoreOps ==
    {"create_user", "get_user", "user_exists", "update_user", "delete_user",
     "get_all_users", "get_user_count"}

\* C12: for every sequence of store operations applied with the same
\* arguments to an InMemoryStorageManager and a DatabaseManager that both
\* start empty, the two return the same result at every step.
C12_SameResults ==
    (storage = Both /\ last.op \in StoreOps) =>
        last.payload.mem = last.payload.db

----------------------------------------------------------------------------

\* the record register_user hands to storage.create_user
RegistrationRecord(username, password, salt) ==
    [username |-> username,
     password_hash |-> _hash_password(password, salt).hashed,
     salt |-> _hash_password(password, salt).salt,
     created_at |-> Iso(now)]

StorageCreateFails(user_data, salt) ==
    IF storage = InMemory THEN ~MemCreateUser(users, user_data).ret
    ELSE ~DbCreateUser(table, seq, user_data, salt, now).ret

\* C13: when the store's create_user fails during register_user, the result
\* is a failure with reason storage_error: never success for a record that
\* was not persisted, and no internal error text of the store in the message.
C13_CreateFailureIsStorageError ==
    [][\A u \in AuthUsers, pw \in Passwords, s \in Salts :
        (/\ _validate_registration_input(u, pw).success
         /\ ~StorageUserExists(u)
         /\ StorageCreateFails(RegistrationRecord(u, pw, s), s)
         /\ RegisterUser(u, pw, s))
        => /\ ~last'.ok
           /\ last'.result_type = "storage_error"
           /\ StorageUserExists(u)' = StorageUserExists(u)]_vars

\* C14: in every store state reachable by service and store operations,
\* register_user, login_user and get_user_data return a tagged result
\* (success flag and reason) and raise no exception to the caller.
C14_ServiceNeverRaises ==
    (last.op \in ServiceOps) =>
        /\ ~last.raised
        /\ last.result_type # ""

----------------------------------------------------------------------------

StoreUnchanged == users' = users /\ table' = table /\ seq' = seq

\* the step is a call of op: every call flips last.n
Called(op) == last'.n # last.n /\ last'.op = op

----------------------------------------------------------------------------
(* The validators of AuthManager applied to strings drawn from bounded     *)
(* sets: a few characters of each class, padded to the lengths around the  *)
(* limits                                                                  *)

Repeat(c, n) == [i \in 1..n |-> c]

PadTo(s, c, n) == IF Len(s) >= n THEN s ELSE s \o Repeat(c, n - Len(s))

PasswordCores ==
    {<<>>, <<"A">>, <<"a">>, <<"1">>, <<"A", "a">>, <<"A", "1">>,
     <<"a", "1">>, <<"A", "a", "1">>, <<EAcute, "a", "1">>,
     <<"A", "a", ArabicThree>>}

PasswordLengths ==
    {0, _password_min_length - 1, _password_min_length,
     _password_max_length, _password_max_length + 1}

PasswordInputs ==
    {NoneVal} \cup
    {PadTo(core, "!", n) : core \in PasswordCores, n \in PasswordLengths}

UsernameLengths ==
    {0, _username_min_length - 1, _username_min_length,
     _username_max_length - 1, _username_max_length,
     _username_max_length + 1}

UsernameTails ==
    {<<>>, <<"_">>, <<"Z", "9">>, <<"-">>, <<" ">>, <<EAcute>>,
     <<NewLine>>, <<NewLine, "b">>}

UsernameInputs ==
    {Repeat("a", n) \o tail : n \in UsernameLengths, tail \in UsernameTails}

ValidatePassword(password) ==
    /\ LET r == _validate_password(password)
       IN  last' = Outcome("_validate_password", NoneVal, password,
                           r.valid, FALSE, "", r.message, NoRecord)
    /\ UNCHANGED <<tokens, threads, storage, users, table, seq, now>>

ValidateUsername(username) ==
    /\ last' = Outcome("_validate_username", username, NoneVal,
                       _validate_username(username), FALSE, "", "", NoRecord)
    /\ UNCHANGED <<tokens, threads, storage, users, table, seq, now>>

NextValidators ==
    \/ \E password \in PasswordInputs : ValidatePassword(password)
    \/ \E username \in UsernameInputs : ValidateUsername(username)

SpecValidators == Init /\ [][NextValidators]_vars

\* The rules of validate_password in the order they are stated, each with
\* the reason it gives
PasswordRules ==
    <<"missing", "too short", "too long", "uppercase", "lowercase", "digit">>

Violates(password, rule) ==
    CASE rule = "missing" -> password = NoneVal \/ password = <<>>
      [] rule = "too short" -> Len(password) < 8
      [] rule = "too long" -> Len(password) > 128
      [] rule = "uppercase" -> \A i \in 1..Len(password) : password[i] \notin Upper
      [] rule = "lowercase" -> \A i \in 1..Len(password) : password[i] \notin Lower
      [] rule = "digit" ->
            \A i \in 1..Len(password) : password[i] \notin DecimalDigit

ReasonOf(rule) ==
    CASE rule = "missing" -> "Password is required"
      [] rule = "too short" -> "Password must be at least 8 characters long"
      [] rule = "too long" -> "Password must be no more than 128 characters long"
      [] rule = "uppercase" -> "Password must contain at least one uppercase letter"
      [] rule = "lowercase" -> "Password must contain at least one lowercase letter"
      [] rule = "digit" -> "Password must contain at least one number"

ViolatedRules(password) ==
    {k \in 1..Len(PasswordRules) : Violates(password, PasswordRules[k])}

FirstViolated(password) ==
    CHOOSE k \in ViolatedRules(password) :
        \A j \in ViolatedRules(password) : k <= j

C17_UsernameCharset ==
    (last.op = "_validate_username") =>
        (last.ok <=>
            /\ Len(last.username) >= 3
            /\ Len(last.username) <= 50
            /\ \A i \in 1..Len(last.username) : last.username[i] \in WordChars)

----------------------------------------------------------------------------
(* Concurrent calls of DatabaseManager.authenticate_user on one database   *)
(* file, one call per thread.  A call reads the row (get_user), decides on *)
(* its own copy of it, and then writes through a connection of its own;    *)
(* each statement followed by its commit is one step, serialized by the    *)
(* database.                                                               *)

MaxThreads == 3

ThreadPasswords == {SecurePass1, wrong}

NewThread(password) ==
    [username |-> alice, password |-> password, pc |-> "start",
     user |-> NoRecord, result |-> ""]

InitConcurrent ==
    /\ storage = Sqlite
    /\ users = MemInit
    /\ seq = 1
    /\ \E f \in {0, 1} : \E l \in {NoneVal, Iso(MaxTime)} :
          table = [i \in {1} |-> ExistingRow(f, l)]
    /\ now = 1
    /\ last = NoCall
    /\ \E k \in 1..MaxThreads :
          threads \in [1..k -> {NewThread(pw) : pw \in ThreadPasswords}]
    /\ tokens = NoTokens

\* user_data = self.get_user(username)
ThreadGetUser(i) ==
    /\ threads[i].pc = "start"
    /\ threads' = [threads EXCEPT
                     ![i].user = DbGetUser(table, threads[i].username),
                     ![i].pc = "got_user"]
    /\ UNCHANGED <<tokens, storage, users, table, seq, now, last>>

\* the user is missing or the account is locked: return without writing
ThreadRefuse(i) ==
    /\ threads[i].pc = "got_user"
    /\ threads[i].user = NoRecord \/ IsLockedAt(threads[i].user, now)
    /\ threads' = [threads EXCEPT
                     ![i].result = IF threads[i].user = NoRecord
                                     THEN "User not found"
                                     ELSE "Account is temporarily locked",
                     ![i].pc = "done"]
    /\ UNCHANGED <<tokens, storage, users, table, seq, now, last>>

ThreadVerifies(i) ==
    /\ threads[i].pc = "got_user"
    /\ threads[i].user # NoRecord
    /\ ~IsLockedAt(threads[i].user, now)
    /\ Db_verify_password(threads[i].password, threads[i].user.password_hash,
                          threads[i].user.salt)

ThreadReset(i) ==
    /\ ThreadVerifies(i)
    /\ table' = _reset_failed_login_attempts(table, threads[i].user.id)
    /\ threads' = [threads EXCEPT ![i].pc = "reset"]
    /\ UNCHANGED <<tokens, storage, users, seq, now, last>>

ThreadUpdateLastLogin(i) ==
    /\ threads[i].pc = "reset"
    /\ table' = _update_last_login(table, threads[i].user.id, now)
    /\ threads' = [threads EXCEPT ![i].result = "Authentication successful",
                                  ![i].pc = "done"]
    /\ UNCHANGED <<tokens, storage, users, seq, now, last>>

ThreadIncrement(i) ==
    /\ threads[i].pc = "got_user"
    /\ threads[i].user # NoRecord
    /\ ~IsLockedAt(threads[i].user, now)
    /\ ~Db_verify_password(threads[i].password, threads[i].user.password_hash,
                           threads[i].user.salt)
    /\ table' = _increment_failed_login_attempts(table, threads[i].user.id)
    /\ threads' = [threads EXCEPT ![i].result = "Invalid credentials",
                                  ![i].pc = "done"]
    /\ UNCHANGED <<tokens, storage, users, seq, now, last>>

NextConcurrent ==
    \/ \E i \in DOMAIN threads : ThreadGetUser(i)
    \/ \E i \in DOMAIN threads : ThreadRefuse(i)
    \/ \E i \in DOMAIN threads : ThreadReset(i)
    \/ \E i \in DOMAIN threads : ThreadUpdateLastLogin(i)
    \/ \E i \in DOMAIN threads : ThreadIncrement(i)

SpecConcurrent == InitConcurrent /\ [][NextConcurrent]_vars

AllWrong ==
    \A i \in DOMAIN threads :
        ~Db_verify_password(threads[i].password, table[1].password_hash,
                            table[1].salt)

ReturnedThreads(th) == {i \in DOMAIN th : th[i].pc = "done"}

----------------------------------------------------------------------------

\* authentication of username with password succeeds on the store as it is:
\* login_user, and authenticate_user where the DatabaseManager is the store
AuthenticatesWith(username, password) ==
    /\ login_user(username, password).success
    /\ storage = Sqlite =>
          authenticate_user(table, username, password, now).success

\* C19: after DatabaseManager.update_user(u, {password: p2}) returned true,
\* the store's password change, the salt and password_hash of u are
\* replaced by a newly generated pair, updated_at is
\* set, authentication of u with p2 succeeds and authentication with the
\* previous password fails.
C19_PasswordChange ==
    [][\A u \in UpdateUsers, old \in Passwords \ {NewPass99} :
        (/\ storage = Sqlite
         /\ StorageUserExists(u)
         /\ Matches(Account(u), old)
         /\ Update(u, [password |-> NewPass99])
         /\ last'.ok)
        => /\ HasCredentials(Account(u)')
           /\ Account(u)'.password_hash # Account(u).password_hash
           /\ Truthy(Get(Account(u)', "updated_at"))
           /\ AuthenticatesWith(u, NewPass99)'
           /\ ~AuthenticatesWith(u, old)']_vars

----------------------------------------------------------------------------

\* a record create_user is expected to accept: a valid username, and either
\* a plaintext password or a password_hash with its salt and no plaintext
Creatable(user_data) ==
    /\ "username" \in DOMAIN user_data
    /\ _validate_username(user_data.username)
    /\ \/ "password" \in DOMAIN user_data /\ Len(user_data.password) >= 8
       \/ /\ "password" \notin DOMAIN user_data
          /\ {"password_hash", "salt"} \subseteq DOMAIN user_data
    /\ "email" \in DOMAIN user_data => _is_valid_email(user_data.email)

\* C20: DatabaseManager.create_user returns true for every record whose
\* username is free and valid, whether it carries a plaintext password or a
\* computed password_hash and salt without a plaintext password; afterwards
\* user_exists(username) is true and get_user(username) returns a record
\* with that username and a password_hash.
C20_CreateAcceptsHashedRecord ==
    [][\A d \in CreateInputs : \A s \in SaltsFor(d) :
        (/\ Creatable(d)
         /\ ~DbUserExists(table, d.username)
         /\ ~EmailTaken(table, Get(d, "email"), 0)
         /\ DbCreate(d, s))
        => /\ last'.ok
           /\ DbUserExists(table', d.username)
           /\ DbGetUser(table', d.username) # NoRecord
           /\ DbGetUser(table', d.username).username = d.username
           /\ Truthy(DbGetUser(table', d.username).password_hash)]_vars

----------------------------------------------------------------------------

\* the records the store holds for username
RecordsOf(username) ==
    IF storage = InMemory
      THEN {u \in DOMAIN users : u = username}
    ELSE RowIds(table, username)

\* C21: in every reachable store state there is at most one record per
\* username; create_user for a username that already has a record returns
\* false and leaves the existing record and the user count unchanged.
C21_OneRecordPerUsername ==
    [][/\ \A u \in Usernames : Cardinality(RecordsOf(u)') <= 1
       /\ \A u \in Usernames :
            (/\ Called("create_user")
             /\ last'.username = u
             /\ StorageUserExists(u)) =>
                /\ ~last'.ok
                /\ Account(u)' = Account(u)
                /\ StorageGetUserCount' = StorageGetUserCount]_vars

C21_Witness ==
    /\ last.op = "create_user"
    /\ ~last.ok
    /\ StorageUserExists(last.username)
    /\ StorageGetUserCount = 2

\* the email of a stored record, NoneVal when it has none
EmailOf(rec) == Get(rec, "email")

\* C22: in every store state reachable by create_user and update_user no two
\* accounts have the same non-empty email (a create or an update that would
\* give an account an email held by another account fails and changes
\* nothing).
C22_EmailsAreUnique ==
    /\ \A u, v \in DOMAIN users :
          (u # v /\ Truthy(EmailOf(users[u]))) =>
              EmailOf(users[u]) # EmailOf(users[v])
    /\ \A i, j \in DOMAIN table :
          (i # j /\ Truthy(table[i].email)) => table[i].email # table[j].email

----------------------------------------------------------------------------
(* The Flask application (src/flask_app.py).  Its storage_manager is a     *)
(* DatabaseManager and its auth_manager an AuthManager on it; a request is *)
(* the pair of request.is_json and request.get_json(), an Authorization    *)
(* header the list auth_header.split(' ') of its parts                     *)

JWT_SECRET_KEY == "your-jwt-secret-key-change-in-production"

\* one hour, as one step of the clock
JWT_ACCESS_TOKEN_EXPIRES == 1

\* jwt.encode: the claims and the key they are signed with
generate_jwt_token(user_data, t) ==
    [username |-> user_data.username,
     exp |-> t + JWT_ACCESS_TOKEN_EXPIRES,
     iat |-> t,
     key |-> JWT_SECRET_KEY]

\* verify_jwt_token without the test of the exp claim
verify_jwt_token_unexpiring(token, t) ==
    IF token.key # JWT_SECRET_KEY THEN NoRecord
    ELSE [username |-> token.username, exp |-> token.exp, iat |-> token.iat]

\* jwt.decode: InvalidTokenError for a signature made with another key,
\* ExpiredSignatureError once exp is not in the future; both give None
verify_jwt_token(token, t) ==
    IF token.key # JWT_SECRET_KEY THEN NoRecord
    ELSE IF token.exp <= t THEN NoRecord
    ELSE [username |-> token.username, exp |-> token.exp, iat |-> token.iat]

\* jsonify({'success': False, 'message': ..., 'error': ...}), status
ErrorResponse(status, message, error) ==
    [status |-> status,
     body |-> [success |-> FALSE, message |-> message, error |-> error]]

\* request.headers.get('Authorization') is None
NoHeader == <<>>

\* The part of require_auth before the call of the decorated function
require_auth(header, t) ==
    IF header = NoHeader
      THEN ErrorResponse(401, "Authorization header missing",
                         "MISSING_AUTH_HEADER")
           @@ [passed |-> FALSE, user |-> NoRecord]
    ELSE IF Len(header) < 2
      THEN ErrorResponse(401, "Invalid authorization header format",
                         "INVALID_AUTH_FORMAT")
           @@ [passed |-> FALSE, user |-> NoRecord]
    ELSE IF Falsy(verify_jwt_token(header[2], t))
      THEN ErrorResponse(401, "Invalid or expired token", "INVALID_TOKEN")
           @@ [passed |-> FALSE, user |-> NoRecord]
    ELSE [passed |-> TRUE, user |-> verify_jwt_token(header[2], t)]

\* The part of validate_json_request before the call of the decorated function
validate_json_request(required_fields, request) ==
    LET data == request.json
        missing_fields == SelectSeq(required_fields,
                                    LAMBDA field : field \notin DOMAIN data)
    IN  IF ~request.is_json
          THEN ErrorResponse(400, "Content-Type must be application/json",
                             "INVALID_CONTENT_TYPE") @@ [passed |-> FALSE]
        ELSE IF Falsy(data)
          THEN ErrorResponse(400, "Invalid JSON data", "INVALID_JSON")
               @@ [passed |-> FALSE]
        ELSE IF missing_fields # <<>>
          THEN ErrorResponse(400, <<"Missing required fields: ", missing_fields>>,
                             "MISSING_FIELDS") @@ [passed |-> FALSE]
        ELSE [passed |-> TRUE]

\* The record of the last request: the endpoint, the request (the header of
\* a GET), the response, the AuthManager methods the handler called and the
\* result_type of the result it got
HttpOutcome(op, request, response, calls, result_type) ==
    [op |-> op, request |-> request,
     status |-> response.status, body |-> response.body,
     calls |-> calls, result_type |-> result_type,
     n |-> 1 - last.n]

NoRequest ==
    [op |-> "init", request |-> NoHeader, status |-> 0, body |-> EmptyMap,
     calls |-> <<>>, result_type |-> "", n |-> 0]

\* POST /register
register(request, salt) ==
    /\ storage = Sqlite
    /\ LET v == validate_json_request(<<"username", "password">>, request)
           username == request.json.username
           password == request.json.password
           result == register_user(users, table, seq, username, password,
                                   salt, now)
           response ==
               IF result.success
                 THEN [status |-> 201,
                       body |-> [success |-> TRUE,
                                 message |-> "User registered successfully",
                                 data |-> [username |-> username]]]
               ELSE IF result.result_type = "user_exists"
                 THEN ErrorResponse(409, "User already exists", "USER_EXISTS")
               ELSE IF result.result_type = "invalid_username"
                 THEN ErrorResponse(400, result.message, "INVALID_USERNAME")
               ELSE IF result.result_type = "weak_password"
                 THEN ErrorResponse(400, result.message, "WEAK_PASSWORD")
               ELSE ErrorResponse(400, "Registration failed",
                                  "REGISTRATION_FAILED")
       IN  IF ~v.passed
             THEN /\ last' = HttpOutcome("/register", request, v, <<>>, "")
                  /\ UNCHANGED <<users, table, seq>>
           ELSE /\ users' = result.users
                /\ table' = result.table
                /\ seq' = result.seq
                /\ last' = HttpOutcome("/register", request, response,
                                       <<"register_user">>, result.result_type)
    /\ UNCHANGED <<tokens, threads, storage, now>>

\* POST /login
login(request) ==
    /\ storage = Sqlite
    /\ LET v == validate_json_request(<<"username", "password">>, request)
           username == request.json.username
           password == request.json.password
           result == login_user(username, password)
           token == generate_jwt_token([username |-> username], now)
           response ==
               IF result.raised
                 THEN ErrorResponse(500, "Internal server error",
                                    "INTERNAL_ERROR")
               ELSE IF result.success
                 THEN [status |-> 200,
                       body |-> [success |-> TRUE,
                                 message |-> "Login successful",
                                 token |-> token,
                                 data |-> [username |-> username]]]
               ELSE IF result.result_type = "user_not_found"
                 THEN ErrorResponse(404, "User not found", "USER_NOT_FOUND")
               ELSE IF result.result_type = "invalid_credentials"
                 THEN ErrorResponse(401, "Invalid credentials",
                                    "INVALID_CREDENTIALS")
               ELSE ErrorResponse(400, "Login failed", "LOGIN_FAILED")
       IN  IF ~v.passed
             THEN /\ last' = HttpOutcome("/login", request, v, <<>>, "")
                  /\ UNCHANGED tokens
           ELSE /\ last' = HttpOutcome("/login", request, response,
                                       <<"login_user">>, result.result_type)
                /\ tokens' = IF result.success /\ ~result.raised
                               THEN tokens \cup {token} ELSE tokens
    /\ UNCHANGED <<threads, storage, users, table, seq, now>>

\* GET /get_user
get_user(header) ==
    /\ storage = Sqlite
    /\ LET a == require_auth(header, now)
           username == a.user.username
           result == get_user_data(username)
           response ==
               IF result.raised
                 THEN ErrorResponse(500, "Internal server error",
                                    "INTERNAL_ERROR")
               ELSE IF result.success
                 THEN [status |-> 200,
                       body |-> [success |-> TRUE,
                                 message |-> "User data retrieved successfully",
                                 user |-> result.user_data]]
               ELSE ErrorResponse(500, "Failed to retrieve user data",
                                  "USER_DATA_ERROR")
       IN  IF ~a.passed
             THEN last' = HttpOutcome("/get_user", header, a, <<>>, "")
           ELSE last' = HttpOutcome("/get_user", header, response,
                                    <<"get_user_data">>, result.result_type)
    /\ UNCHANGED <<tokens, threads, storage, users, table, seq, now>>

\* initialize_managers(db_path) on a new temporary file, as the setUp of the
\* API tests calls it: the DatabaseManager creates an empty users table.
\* The tokens signed before stay valid, the key being the application's
initialize_managers ==
    /\ storage = Sqlite
    /\ table' = _init_database(EmptyMap)
    /\ seq' = 0
    /\ last' = HttpOutcome("initialize_managers", NoHeader,
                           [status |-> 0, body |-> EmptyMap], <<>>, "")
    /\ UNCHANGED <<tokens, threads, storage, users, now>>

\* a token signed with a key that is not the application's
ForgedToken ==
    [username |-> alice, exp |-> MaxTime + 1, iat |-> 0, key |-> "another-key"]

Headers ==
    {NoHeader, <<"Bearer">>}
        \cup {<<"Bearer", token>> : token \in tokens \cup {ForgedToken}}

Requests ==
    {[is_json |-> FALSE, json |-> NoRecord],
     [is_json |-> TRUE, json |-> EmptyMap],
     [is_json |-> TRUE, json |-> [username |-> alice]]}
        \cup {[is_json |-> TRUE, json |-> [username |-> u, password |-> pw]] :
                 u \in Usernames, pw \in Passwords}

\* initialize_managers() at import: users.db is new, or holds an account
InitHttp ==
    /\ storage = Sqlite
    /\ users = EmptyMap
    /\ \/ table = EmptyMap /\ seq = 0
       \/ table = [i \in {1} |-> ExistingRow(0, NoneVal)] /\ seq = 1
    /\ now = 1
    /\ last = NoRequest
    /\ threads = NoThreads
    /\ tokens = NoTokens

NextHttp ==
    \/ \E request \in Requests, s \in Salts : register(request, s)
    \/ \E request \in Requests : login(request)
    \/ \E header \in Headers : get_user(header)
    \/ initialize_managers
    \/ Tick

SpecHttp == InitHttp /\ [][NextHttp]_vars

\* the dicts a response body carries
BodyPayloads(body) == {body[k] : k \in (DOMAIN body) \cap {"data", "user"}}

\* C23: every response to /register, /login and /get_user whose handler got
\* a failure from the service has the status of the failure's reason:
\* user_exists 409, invalid_credentials 401, user_not_found 404,
\* weak_password and invalid_username 400; and no response body has a
\* password_hash or salt key or carries a stored hash or salt as a value.
C23_StatusOfReason ==
    /\ last.result_type = "user_exists" => last.status = 409
    /\ last.result_type = "invalid_credentials" => last.status = 401
    /\ last.result_type = "user_not_found" => last.status = 404
    /\ last.result_type \in {"weak_password", "invalid_username"} =>
           last.status = 400
    /\ \A payload \in BodyPayloads(last.body) :
          /\ (DOMAIN payload) \cap SecretKeys = {}
          /\ \A k \in DOMAIN payload : \A rec \in Accounts :
                payload[k] \notin SecretsOf(rec)

\* the token part of an Authorization header passes verify_jwt_token at t
ValidAt(header, t) ==
    /\ header # NoHeader
    /\ Len(header) >= 2
    /\ header[2].key = JWT_SECRET_KEY
    /\ header[2].exp > t

\* C24: a request to /get_user whose Authorization header is missing, has
\* no token part, or holds an invalid or expired token is answered 401
\* without a call of get_user_data; a token appears only in the response
\* of a /login whose login_user succeeded, and no other step issues one;
\* the profile in a 200 response of /get_user is the stored account of the
\* username the token carries.
C24_GetUserRequiresToken ==
    [][/\ (Called("/get_user") /\ ~ValidAt(last'.request, now)) =>
              /\ last'.status = 401
              /\ last'.calls = <<>>
       /\ "token" \in DOMAIN last'.body =>
              /\ last'.op = "/login"
              /\ last'.calls = <<"login_user">>
              /\ last'.result_type = "success"
              /\ last'.body.token.username = last'.request.json.username
       /\ tokens' # tokens =>
              /\ Called("/login")
              /\ last'.result_type = "success"
              /\ tokens' = tokens \cup {last'.body.token}
       /\ (Called("/get_user") /\ last'.status = 200) =>
              /\ last'.calls = <<"get_user_data">>
              /\ last'.body.user.username = last'.request[2].username
              /\ last'.body.user.created_at
                     = Account(last'.request[2].username).created_at]_vars

\* an issued token, presented after it expired, was refused
C24_Witness ==
    /\ last.op = "/get_user"
    /\ last.status = 401
    /\ last.calls = <<>>
    /\ Len(last.request) = 2
    /\ last.request[2] \in tokens
    /\ last.request[2].exp <= now

ProfileFields == {"username", "created_at", "email", "is_active", "last_login"}

LockoutFields == {"failed_login_attempts", "account_locked_until"}

\* C25: the view get_user_data returns for an existing account has the
\* fields username, created_at, email, is_active and last_login, and none
\* of failed_login_attempts and account_locked_until.
C25_ProfileView ==
    (last.op = "get_user_data" /\ last.ok) =>
        /\ DOMAIN last.payload = ProfileFields
        /\ (DOMAIN last.payload) \cap LockoutFields = {}

\* C27: every stored account has a password_hash and a salt, and its
\* failed_login_attempts is not negative.
C27_HashAndSaltTogether ==
    \A rec \in Accounts :
        /\ HasCredentials(rec)
        /\ FailedAttempts(rec) >= 0

\* C28: a step that does not remove the account of a username leaves the
\* username and the created_at that get_user returns for it as they were.
C28_CreatedAtImmutable ==
    [][\A u \in Usernames :
          (StorageUserExists(u) /\ StorageUserExists(u)') =>
              /\ Get(Account(u)', "username") = Get(Account(u), "username")
              /\ Get(Account(u)', "created_at") = Get(Account(u), "created_at")]_vars

----------------------------------------------------------------------------
(* _hash_password and _verify_password of both classes applied to bounded  *)
(* passwords, among them the empty one and ones that are a prefix of       *)
(* another or end like a salt; the salts are those token_hex may draw      *)

HashPasswords ==
    Passwords \cup {<<>>, <<"w">>, wrong \o salt0, wrong \o <<"0">>}

HashClasses == {"AuthManager", "DatabaseManager"}

\* salt, hashed = self._hash_password(password)
HashPassword(class, password, salt) ==
    /\ LET h == IF class = "AuthManager" THEN _hash_password(password, salt)
                ELSE Db_hash_password(password, salt)
       IN  last' = Outcome("_hash_password", class, password, TRUE, FALSE,
                           "", "", [password |-> password, salt |-> h.salt,
                                    hashed |-> h.hashed])
    /\ UNCHANGED <<tokens, threads, storage, users, table, seq, now>>

\* self._verify_password(password, hashed, salt) on the pair last produced
VerifyPassword(password) ==
    /\ last.op \in {"_hash_password", "_verify_password"}
    /\ LET h == last.payload
           ret == IF last.username = "AuthManager"
                    THEN _verify_password(password, h.hashed, h.salt)
                  ELSE Db_verify_password(password, h.hashed, h.salt)
       IN  last' = Outcome("_verify_password", last.username, password,
                           ret, FALSE, "", "", h)
    /\ UNCHANGED <<tokens, threads, storage, users, table, seq, now>>

NextHash ==
    \/ \E class \in HashClasses, password \in HashPasswords, salt \in Salts :
          HashPassword(class, password, salt)
    \/ \E password \in HashPasswords : VerifyPassword(password)

SpecHash == Init /\ [][NextHash]_vars

\* C26: _verify_password(q, hash, salt) on a (salt, hash) pair produced by
\* _hash_password(p) is true when q = p and false for every other q, in
\* AuthManager and in DatabaseManager.
C26_VerifyMatchesHash ==
    last.op = "_verify_password" =>
        (last.ok <=> last.password = last.payload.password)

\* a proper prefix of the hashed password was verified and refused
C26_Witness ==
    /\ last.op = "_verify_password"
    /\ ~last.ok
    /\ last.password # last.payload.password
    /\ Len(last.password) < Len(last.payload.password)
    /\ SubSeq(last.payload.password, 1, Len(last.password)) = last.password

\* account_locked_until is set and not in the future
Expired(rec) ==
    /\ Truthy(rec.account_locked_until)
    /\ ~(now < FromIso(rec.account_locked_until))

\* C29: authenticate_user on an account whose account_locked_until has
\* expired does not refuse it as locked and gives the result of the
\* password check; when the password matches, the lock is cleared, and
\* when it does not, the lock stays as it was and failed_login_attempts
\* goes up by one.  No step other than a successful authenticate_user of
\* the account changes its account_locked_until.
C29_ExpiredLockIsAbsent ==
    [][\A i \in (DOMAIN table) \cap (DOMAIN table') :
          /\ (/\ Called("authenticate_user")
              /\ last'.username = table[i].username
              /\ Expired(table[i])) =>
                 /\ last'.message # "Account is temporarily locked"
                 /\ last'.ok <=> Db_verify_password(last'.password,
                                     table[i].password_hash, table[i].salt)
                 /\ last'.ok => table'[i].account_locked_until = NoneVal
                 /\ ~last'.ok =>
                       /\ table'[i].account_locked_until
                              = table[i].account_locked_until
                       /\ table'[i].failed_login_attempts
                              = table[i].failed_login_attempts + 1
          /\ table'[i].account_locked_until # table[i].account_locked_until =>
                 /\ Called("authenticate_user")
                 /\ last'.username = table[i].username
                 /\ last'.ok
                 /\ table'[i].account_locked_until = NoneVal]_vars

\* a wrong password was refused after the lock had expired: the lock is
\* still stored and the failure was counted
C29_Witness ==
    /\ last.op = "authenticate_user"
    /\ ~last.ok
    /\ last.message = "Invalid credentials"
    /\ \E i \in DOMAIN table :
          /\ table[i].username = last.username
          /\ Expired(table[i])
          /\ table[i].failed_login_attempts = 1

\* the operations that are called for one username
UserOps ==
    {"create_user", "update_user", "delete_user", "register_user",
     "login_user", "authenticate_user", "get_user_data"}

\* C30: a store or service operation called for a username leaves what
\* get_user returns for every other username, and so its existence, as it
\* was.
C30_OtherUsersUntouched ==
    [][(last'.n # last.n /\ last'.op \in UserOps) =>
          \A v \in Usernames :
              v # last'.username => Account(v)' = Account(v)]_vars

\* a user was deleted and another user is still stored
C30_Witness ==
    /\ last.op = "delete_user"
    /\ last.ok
    /\ ~StorageUserExists(last.username)
    /\ \E v \in Usernames : v # last.username /\ StorageUserExists(v)

\* C32: in a DatabaseManager store that started empty no row ever has a
\* non-null account_locked_until, and no call ends with the outcome
\* "Account is temporarily locked", however many failed attempts the
\* counter has reached.
C32_NeverLocked ==
    storage = Sqlite =>
        /\ \A i \in DOMAIN table : table[i].account_locked_until = NoneVal
        /\ last.message # "Account is temporarily locked"

\* a wrong password was refused with the counter at the threshold, and the
\* account is still not locked
C32_Witness ==
    /\ storage = Sqlite
    /\ last.op = "authenticate_user"
    /\ ~last.ok
    /\ last.message = "Invalid credentials"
    /\ \E i \in DOMAIN table :
          /\ table[i].username = last.username
          /\ table[i].failed_login_attempts = LockoutThreshold
          /\ table[i].account_locked_until = NoneVal

----------------------------------------------------------------------------
(* Concurrent calls of AuthManager.register_user for one free username,    *)
(* one call per thread, on either store.  A call validates its arguments,  *)
(* asks the store user_exists, and then calls create_user; each call of a  *)
(* store method is one step, and the threads are switched between them.    *)

RegisterCalls == 2

NewRegister(password, salt) ==
    [username |-> alice, password |-> password, salt |-> salt,
     pc |-> "start", result |-> ""]

InitRegister ==
    /\ storage \in {InMemory, Sqlite}
    /\ users = MemInit
    /\ table = EmptyMap
    /\ seq = 0
    /\ now = 1
    /\ last = NoCall
    /\ threads \in [1..RegisterCalls ->
                      {NewRegister(pw, s) : pw \in Passwords, s \in Salts}]
    /\ \A i, j \in DOMAIN threads : i # j => threads[i].salt # threads[j].salt
    /\ tokens = NoTokens

\* validation_result = self._validate_registration_input(username, password)
RegisterValidate(i) ==
    /\ threads[i].pc = "start"
    /\ LET v == _validate_registration_input(threads[i].username,
                                             threads[i].password)
       IN  threads' = [threads EXCEPT
                         ![i].result = IF v.success THEN "" ELSE v.result_type,
                         ![i].pc = IF v.success THEN "validated" ELSE "done"]
    /\ UNCHANGED <<tokens, storage, users, table, seq, now, last>>

\* if self.storage.user_exists(username): return ... USER_EXISTS
RegisterUserExists(i) ==
    /\ threads[i].pc = "validated"
    /\ threads' = [threads EXCEPT
                     ![i].result = IF StorageUserExists(threads[i].username)
                                     THEN "user_exists" ELSE "",
                     ![i].pc = IF StorageUserExists(threads[i].username)
                                 THEN "done" ELSE "free"]
    /\ UNCHANGED <<tokens, storage, users, table, seq, now, last>>

\* self.storage.create_user(user_data), whose return value is not read,
\* and the return of the success result
RegisterCreateUser(i) ==
    /\ threads[i].pc = "free"
    /\ LET h == _hash_password(threads[i].password, threads[i].salt)
           user_data == [username |-> threads[i].username,
                         password_hash |-> h.hashed,
                         salt |-> h.salt,
                         created_at |-> Iso(now)]
           m == MemCreateUser(users, user_data)
           d == DbCreateUser(table, seq, user_data, threads[i].salt, now)
       IN  /\ users' = IF storage = InMemory THEN m.users ELSE users
           /\ table' = IF storage = Sqlite THEN d.table ELSE table
           /\ seq' = IF storage = Sqlite THEN d.seq ELSE seq
    /\ threads' = [threads EXCEPT ![i].result = "success", ![i].pc = "done"]
    /\ UNCHANGED <<tokens, storage, now, last>>

\* every call has returned
Registered == \A i \in DOMAIN threads : threads[i].pc = "done"

NextRegister ==
    \/ \E i \in DOMAIN threads : RegisterValidate(i)
    \/ \E i \in DOMAIN threads : RegisterUserExists(i)
    \/ \E i \in DOMAIN threads : RegisterCreateUser(i)
    \/ \E pw \in Passwords : Registered /\ LoginUser(alice, pw)

SpecRegister == InitRegister /\ [][NextRegister]_vars

\* the calls that returned success
Succeeded == {i \in DOMAIN threads : threads[i].result = "success"}

\* C31: once the concurrent register_user calls for one free username have
\* returned, at most one of them returned success, and a login_user made
\* afterwards accepts a password exactly when it is the password of a call
\* that returned success.
C31_OneRegistrationWins ==
    Registered =>
        /\ Cardinality(Succeeded) <= 1
        /\ last.op = "login_user" =>
              (last.ok <=> \E i \in Succeeded :
                              threads[i].password = last.password)

====
